---- MODULE Spec2Model ----
(***************************************************************************)
(* Model of the paddlegeddon gameplay core (src/src/game): the GamePhase   *)
(* sub-state machine, the goal sensor -> GoalScored -> score pipeline, the *)
(* goal pause timer, the ball lifecycle and the game-over input.           *)
(*                                                                         *)
(* One behaviour step is one system (or observer) run.  A frame runs the   *)
(* engine schedules in their fixed order: StateTransition (pending         *)
(* NextState values are applied, OnExit/OnEnter systems run), the fixed    *)
(* physics step (collision-start observers run), then Update (the systems  *)
(* gated by in_state run conditions).                                      *)
(*                                                                         *)
(* Time is counted in quanta of 1/TicksPerSecond second.                   *)
(***************************************************************************)
EXTENDS Integers, FiniteSets, Sequences, TLC

VARIABLES
    screen,          \* State<Screen>: "Title" or "Gameplay"
    nextScreen,      \* NextState<Screen>: "None" when nothing is pending
    phase,           \* State<GamePhase>; "None" while the sub-state does not exist
    nextPhase,       \* NextState<GamePhase>: "None" when nothing is pending
    score,           \* Score resource: [left, right]
    serve_direction, \* ServeDirection.side
    goal_timer,      \* GoalTimer.timer: [duration, elapsed, finished]
    resources,       \* the resources of this module that the World holds
    balls,           \* the Ball entities: set of [id, vx, vy, at] (velocity signs,
                     \* and "Centre" or "Away" for the translation)
    panicked,        \* TRUE once an unwrap()/expect() on None has been hit
    stage,           \* the schedule the frame is in
    op,              \* history: the system that ran in the last step, with its input
    pre,             \* history: the program state before the last step
    probe,           \* argument and results of the function under test, when
                     \* one is checked on its own
    matches,         \* history: how many times Screen::Gameplay has been entered
    sinceGoal        \* history: time ticked by handle_goal_pause since the last goal

progVars == <<screen, nextScreen, phase, nextPhase, score, serve_direction,
              goal_timer, resources, balls, panicked>>
vars == <<screen, nextScreen, phase, nextPhase, score, serve_direction,
          goal_timer, resources, balls, panicked, stage, op, pre, probe, matches, sinceGoal>>

-----------------------------------------------------------------------------
(* Bounds of the model *)

\* time quanta per second
TicksPerSecond == 2
\* largest frame delta, in quanta
MaxDelta == 2
\* entity ids available to the allocator
MaxEntities == 3
\* largest count handed to the Score methods when they are checked alone
MaxProbe == 12
\* cap on a single count when goal events are delivered outside Playing
MaxStale == 12
\* matches that can be started from the title screen
MaxMatches == 2
\* serve angles drawn per degree of the range
AnglesPerDegree == 1
\* f32 values tried on either side of each landmark coordinate
MaxNudge == 3

-----------------------------------------------------------------------------
(* Program constants and types *)

MAX_SCORE == 11
MERCY_SCORE == 7
GOAL_PAUSE_DURATION == 1 * TicksPerSecond
BALL_SPEED == 300
MIN_SERVE_ANGLE == 15
MAX_SERVE_ANGLE == 45

PlayerSide == {"Left", "Right"}
Goal == {"Left", "Right"}
GamePhase == {"WaitingToServe", "Playing", "GoalScored", "GameOver"}
Keys == {"Space", "Escape"}

DefaultPlayerSide == "Left"
\* the #[default] attribute put on Playing
DefaultGamePhase_Playing == "Playing"

DefaultGamePhase == "WaitingToServe"
DefaultScore == [left |-> 0, right |-> 0]
\* Timer::default(): zero duration, nothing elapsed, not finished
DefaultGoalTimer == [duration |-> 0, elapsed |-> 0, finished |-> FALSE]

\* GoalTimer left out of the plugin's init_resource calls
InitResources_NoGoalTimer == {"Score"}

\* the resources the plugin registers with init_resource
InitResources == {"Score", "GoalTimer"}

-----------------------------------------------------------------------------
(* Score *)

\* a lead of two required at MAX_SCORE
has_winner_WinByTwo(s) ==
    \/ (s.left >= MERCY_SCORE /\ s.right = 0)
    \/ (s.right >= MERCY_SCORE /\ s.left = 0)
    \/ (s.left >= MAX_SCORE /\ s.left >= s.right + 2)
    \/ (s.right >= MAX_SCORE /\ s.right >= s.left + 2)

\* the mercy rule left out of has_winner
has_winner_NoMercy(s) == s.left >= MAX_SCORE \/ s.right >= MAX_SCORE

\* the mercy test made without looking at the other side's count
has_winner_AnyMercy(s) ==
    \/ s.left >= MAX_SCORE \/ s.right >= MAX_SCORE
    \/ s.left >= MERCY_SCORE \/ s.right >= MERCY_SCORE

\* has_winner with > in place of >= in the first-to-11 test
has_winner_Strict(s) ==
    IF s.left > MAX_SCORE \/ s.right > MAX_SCORE
    THEN TRUE
    ELSE \/ (s.left >= MERCY_SCORE /\ s.right = 0)
         \/ (s.right >= MERCY_SCORE /\ s.left = 0)

has_winner(s) ==
    IF s.left >= MAX_SCORE \/ s.right >= MAX_SCORE
    THEN TRUE
    ELSE \/ (s.left >= MERCY_SCORE /\ s.right = 0)
         \/ (s.right >= MERCY_SCORE /\ s.left = 0)

\* winner without the mercy alternative for the right side
winner_NoRightMercy(s) ==
    IF s.left >= MAX_SCORE \/ (s.left >= MERCY_SCORE /\ s.right = 0)
    THEN "Left"
    ELSE IF s.right >= MAX_SCORE
         THEN "Right"
         ELSE "None"

winner(s) ==
    IF s.left >= MAX_SCORE \/ (s.left >= MERCY_SCORE /\ s.right = 0)
    THEN "Left"
    ELSE IF s.right >= MAX_SCORE \/ (s.right >= MERCY_SCORE /\ s.left = 0)
         THEN "Right"
         ELSE "None"

\* the mercy label given as soon as one side has MERCY_SCORE
win_type_AnySeven(s) ==
    IF s.left >= MERCY_SCORE \/ s.right >= MERCY_SCORE
    THEN "Mercy win"
    ELSE "Game win"

\* the first-to-11 test made before the mercy test
win_type_NormalFirst(s) ==
    IF s.left >= MAX_SCORE \/ s.right >= MAX_SCORE
    THEN "Game win"
    ELSE IF (s.left >= MERCY_SCORE /\ s.right = 0) \/ (s.right >= MERCY_SCORE /\ s.left = 0)
         THEN "Mercy win"
         ELSE "Game win"

\* the mercy label given only above MERCY_SCORE
win_type_Above(s) ==
    IF (s.left > MERCY_SCORE /\ s.right = 0) \/ (s.right > MERCY_SCORE /\ s.left = 0)
    THEN "Mercy win"
    ELSE "Game win"

\* the win_type computed next to winner()
win_type(s) ==
    IF (s.left >= MERCY_SCORE /\ s.right = 0) \/ (s.right >= MERCY_SCORE /\ s.left = 0)
    THEN "Mercy win"
    ELSE "Game win"

\* the point credited to the other side
RecordPoint_OtherSide(s, side) ==
    IF side = "Left" THEN [s EXCEPT !.right = @ + 1] ELSE [s EXCEPT !.left = @ + 1]

\* the point counted twice
RecordPoint_Twice(s, side) ==
    IF side = "Left" THEN [s EXCEPT !.left = @ + 2] ELSE [s EXCEPT !.right = @ + 2]

\* score.left += 1 / score.right += 1
RecordPoint(s, side) ==
    IF side = "Left" THEN [s EXCEPT !.left = @ + 1] ELSE [s EXCEPT !.right = @ + 1]

-----------------------------------------------------------------------------
(* Ball and serve *)

BallIds(bs) == {b.id : b \in bs}

\* the entity allocator hands out an id that is not alive
FreshEntity(bs) == CHOOSE i \in 1..MaxEntities :
                      /\ i \notin BallIds(bs)
                      /\ \A j \in 1..MaxEntities : j \notin BallIds(bs) => i <= j

\* a ball spawned with a serve velocity already applied
spawn_ball_Served(bs) ==
    [id |-> FreshEntity(bs), vx |-> 1, vy |-> 1, at |-> "Centre"]

\* spawn_ball: a ball at the court centre with LinearVelocity::ZERO
spawn_ball(bs) == [id |-> FreshEntity(bs), vx |-> 0, vy |-> 0, at |-> "Centre"]

\* Angles are counted in steps of 1/AnglesPerDegree degree, radians in
\* thousandths, and cos and sin are in thousandths as well.
Milli == 1000

\* the draws of the random generator in serve_ball: the angle from
\* MIN_SERVE_ANGLE..=MAX_SERVE_ANGLE and the sign, up or down
RngDraws ==
    [angle : (MIN_SERVE_ANGLE * AnglesPerDegree)..(MAX_SERVE_ANGLE * AnglesPerDegree),
     sign  : {1, -1}]

\* f32::to_radians: degrees times pi/180 (17.453 thousandths per degree)
to_radians(angle) == (angle * 17453) \div (Milli * AnglesPerDegree)

\* f32::cos, by its series up to the sixth power
Cos(x) ==
    LET x2 == (x * x) \div Milli
        x4 == (x2 * x2) \div Milli
        x6 == (x4 * x2) \div Milli
    IN  Milli - (x2 \div 2) + (x4 \div 24) - (x6 \div 720)

\* f32::sin, by its series up to the fifth power
Sin(x) ==
    LET x2 == (x * x) \div Milli
        x3 == (x * x2) \div Milli
        x5 == (x3 * x2) \div Milli
    IN  x - (x3 \div 6) + (x5 \div 120)

\* +1.0 whichever side serves
direction_x_AlwaysRight(side) == 1

\* "Left player serves to the right", "Right player serves to the left"
direction_x(side) == IF side = "Left" THEN 1 ELSE -1

angle_radians(rng) == to_radians(rng.angle) * rng.sign

velocity_x(side, rng) == Cos(angle_radians(rng)) * BALL_SPEED * direction_x(side)

velocity_y(side, rng) == Sin(angle_radians(rng)) * BALL_SPEED

Sign(x) == IF x > 0 THEN 1 ELSE IF x < 0 THEN -1 ELSE 0

\* serve_ball: the velocity computed from the draws is inserted in the ball
serve_ball(b, side, rng) ==
    [b EXCEPT !.vx = Sign(velocity_x(side, rng)),
              !.vy = Sign(velocity_y(side, rng))]

\* what serve_ball reports of a serve: the angle, its sign and the velocity
ServeLog(side, rng) ==
    <<rng.angle, rng.sign, velocity_x(side, rng), velocity_y(side, rng)>>

Moving(b) == b.vx # 0 \/ b.vy # 0

\* a physics step on the balls (dynamic bodies without gravity or damping):
\* a ball with a velocity leaves the place it is at, a ball at rest stays
MoveBalls(bs) == {IF Moving(b) THEN [b EXCEPT !.at = "Away"] ELSE b : b \in bs}

\* the scorer serves again
NextServer_Scorer(side) == side

\* "the player who was scored on gets to serve"
NextServer(side) == IF side = "Left" THEN "Right" ELSE "Left"

\* the side of the goal that was hit credited with the point
ScoringSide_GoalSide(g) == g

\* the goal sensor's observer: the side that scores when a ball enters goal g
ScoringSide(g) == IF g = "Left" THEN "Right" ELSE "Left"

-----------------------------------------------------------------------------
(* Timer *)

TimerFromSeconds(d) == [duration |-> d, elapsed |-> 0, finished |-> FALSE]

Min(a, b) == IF a <= b THEN a ELSE b

\* the timer read without having been ticked
TimerTick_NoTick(t, delta) == t

\* Timer::tick for a TimerMode::Once timer
TimerTick(t, delta) ==
    IF t.finished
    THEN t
    ELSE LET e == Min(t.elapsed + delta, t.duration)
         IN  [t EXCEPT !.elapsed = e, !.finished = (t.elapsed + delta >= t.duration)]

-----------------------------------------------------------------------------
(* History *)

Snap == [screen |-> screen, nextScreen |-> nextScreen, phase |-> phase,
         nextPhase |-> nextPhase, score |-> score,
         serve_direction |-> serve_direction, goal_timer |-> goal_timer,
         balls |-> balls]

NoOp == [name |-> "Init", side |-> "None", keys |-> {}, delta |-> 0,
         goal |-> "None", pair |-> {}, serves |-> {}]

Ran(name) == [NoOp EXCEPT !.name = name]

Record(o) == /\ op' = o
             /\ pre' = Snap

-----------------------------------------------------------------------------
(* Initial state: the app is built, the Title screen is showing *)

Init ==
    /\ screen = "Title"
    /\ nextScreen = "None"
    /\ phase = "None"
    /\ nextPhase = "None"
    /\ score = DefaultScore
    /\ serve_direction = DefaultPlayerSide
    /\ goal_timer = DefaultGoalTimer
    /\ resources = InitResources
    /\ balls = {}
    /\ panicked = FALSE
    /\ stage = "Update"
    /\ op = NoOp
    /\ pre = [screen |-> "Title", nextScreen |-> "None", phase |-> "None",
              nextPhase |-> "None", score |-> DefaultScore,
              serve_direction |-> DefaultPlayerSide,
              goal_timer |-> DefaultGoalTimer, balls |-> {}]
    /\ probe = [left |-> 0, right |-> 0, hasCalled |-> FALSE, has |-> FALSE,
                winCalled |-> FALSE, win |-> "None",
                typeCalled |-> FALSE, type |-> "None"]
    /\ matches = 0
    /\ sinceGoal = 0

-----------------------------------------------------------------------------
(* scoring.rs: the GoalScored observer *)

\* the ball taken with single() and unwrapped
DespawnPanics_Single(bs) == Cardinality(bs) # 1

\* the despawn loop runs over the Ball query: with no ball its body never
\* runs, and every entity it names is alive, so it cannot fail
DespawnPanics(bs) == FALSE

\* the despawn loop left out
DespawnAll_None(bs) == bs

\* "Despawn all balls"
DespawnAll(bs) == {}

\* the win check left out
GoalOutcome_NeverWins(s) == "GoalScored"

\* the branch taken on the updated score
GoalOutcome(s) == IF has_winner(s) THEN "GameOver" ELSE "GoalScored"

\* the timer of the previous pause kept after a goal
GoalTimerAfter_NoRestart(t, outcome) == t

\* the timer resource after a goal with the given outcome
GoalTimerAfter(t, outcome) ==
    IF outcome = "GoalScored" THEN TimerFromSeconds(GOAL_PAUSE_DURATION) ELSE t

\* the World's resources after a goal: insert_resource(GoalTimer { .. }) on
\* the no-winner branch; nothing removes a resource
ResourcesAfterGoal(rs, outcome) ==
    IF outcome = "GoalScored" THEN rs \cup {"GoalTimer"} ELSE rs

\* a replacement ball spawned whatever the outcome
BallsAfterGoal_AlwaysSpawn(bs, outcome) ==
    {[id |-> 1, vx |-> 0, vy |-> 0, at |-> "Centre"]}

\* the ball entities after a goal with the given outcome
BallsAfterGoal(bs, outcome) ==
    IF outcome = "GoalScored"
    THEN DespawnAll(bs) \cup {spawn_ball(bs)}
    ELSE DespawnAll(bs)

\* the server changed by a match-ending goal as well
ServerAfterGoal_EveryGoal(cur, side, outcome) == NextServer(side)

\* the serving side after a goal by `side` with the given outcome
ServerAfterGoal(cur, side, outcome) ==
    IF outcome = "GoalScored" THEN NextServer(side) ELSE cur

\* The observer has no run condition: it runs whenever GoalScored is triggered.
handle_goal_and_check_win(side) ==
    LET newScore == RecordPoint(score, side)
        outcome  == GoalOutcome(newScore)
    IN  /\ score' = newScore
        /\ balls' = BallsAfterGoal(balls, outcome)
        /\ panicked' = \/ DespawnPanics(balls)
                       \/ outcome = "GameOver" /\ winner(newScore) = "None"
        /\ serve_direction' = ServerAfterGoal(serve_direction, side, outcome)
        /\ nextPhase' = outcome
        /\ goal_timer' = GoalTimerAfter(goal_timer, outcome)
        /\ resources' = ResourcesAfterGoal(resources, outcome)
        /\ UNCHANGED <<screen, nextScreen, phase>>

-----------------------------------------------------------------------------
(* court.rs: the goal sensor's OnCollisionStart observer *)

\* physics.rs: the collision layers of each kind of body
BodyKinds == {"Ball", "Paddle", "Boundary", "Goal"}

paddle_layers == [membership |-> "Paddle", filters |-> {"Ball", "Boundary"}]
ball_layers == [membership |-> "Ball",
                filters |-> {"Paddle", "Boundary", "Goal", "PowerUp"}]
boundary_layers == [membership |-> "Boundary", filters |-> {"Paddle", "Ball"}]
goal_layers == [membership |-> "Goal", filters |-> {"Ball"}]

LayersOf(kind) ==
    CASE kind = "Paddle" -> paddle_layers
      [] kind = "Ball" -> ball_layers
      [] kind = "Boundary" -> boundary_layers
      [] kind = "Goal" -> goal_layers

\* two bodies collide when each one's membership is in the other's filters
Collides(k1, k2) ==
    /\ LayersOf(k1).membership \in LayersOf(k2).filters
    /\ LayersOf(k2).membership \in LayersOf(k1).filters

\* the observer run for every collision-start that involves a ball
ObserverFires_AnyTarget(target, other) == other = "Ball"

\* The observer is attached to the goal entity, so it runs for collision
\* starts of that goal only, and it goes on only if the collider is a Ball.
ObserverFires(target, other) == target = "Goal" /\ other = "Ball"

\* A ball at rest at the court centre cannot reach a goal; a served ball can
\* reach either goal.  The observer triggers GoalScored once, and the
\* GoalScored observer runs before the physics step goes on.
BallEntersGoal(b, g) ==
    /\ stage = "FixedUpdate"
    /\ ~panicked
    /\ screen = "Gameplay"
    /\ b \in balls
    /\ Moving(b)
    /\ Collides("Ball", "Goal")
    /\ ObserverFires("Goal", "Ball")
    /\ handle_goal_and_check_win(ScoringSide(g))
    /\ Record([Ran("BallEntersGoal") EXCEPT !.side = ScoringSide(g), !.goal = g])
    /\ sinceGoal' = 0
    /\ UNCHANGED <<stage, probe, matches>>

\* A collision-start of any other pair of bodies: ball with paddle, ball
\* with boundary, paddle with boundary.  A pair that involves the ball needs
\* a ball that moves.
CollisionStart(k1, k2) ==
    /\ stage = "FixedUpdate"
    /\ ~panicked
    /\ screen = "Gameplay"
    /\ Collides(k1, k2)
    /\ {k1, k2} # {"Ball", "Goal"}
    /\ "Ball" \in {k1, k2} => \E b \in balls : Moving(b)
    /\ IF ObserverFires(k1, k2) \/ ObserverFires(k2, k1)
       THEN /\ \E g \in Goal : handle_goal_and_check_win(ScoringSide(g))
            /\ sinceGoal' = 0
       ELSE UNCHANGED <<progVars, sinceGoal>>
    /\ Record([Ran("CollisionStart") EXCEPT !.pair = {k1, k2}])
    /\ UNCHANGED <<stage, probe, matches>>

\* GoalScored triggered although no served ball entered a goal (a duplicate
\* sensor trigger or a stale event): the event reaches the same observer.
StaleGoalScored(side) ==
    /\ stage = "FixedUpdate"
    /\ ~panicked
    /\ screen = "Gameplay"
    /\ score.left < MaxStale /\ score.right < MaxStale
    /\ handle_goal_and_check_win(side)
    /\ Record([Ran("StaleGoalScored") EXCEPT !.side = side])
    /\ sinceGoal' = 0
    /\ UNCHANGED <<stage, probe, matches>>

\* the physics step ends; Update runs next
FixedUpdateDone ==
    /\ stage = "FixedUpdate"
    /\ ~panicked
    /\ stage' = "Update"
    /\ balls' = MoveBalls(balls)
    /\ Record(Ran("FixedUpdateDone"))
    /\ UNCHANGED <<screen, nextScreen, phase, nextPhase, score, serve_direction,
                   goal_timer, resources, panicked, probe, matches, sinceGoal>>

-----------------------------------------------------------------------------
(* The StateTransition schedule *)

\* State<Screen> after the pending NextState<Screen> is applied
ScreenAfter(cur, next) == IF next # "None" THEN next ELSE cur

\* State<GamePhase> (a sub-state with source Screen::Gameplay) after the
\* transition.  A transition of the parent to the state it is already in
\* still counts as the parent having changed, and an existing sub-state
\* then keeps its current value unless a NextState is pending.
PhaseAfter(curScreen, nxtScreen, cur, next) ==
    LET parentChanged == nxtScreen # "None"
        shouldExist   == ScreenAfter(curScreen, nxtScreen) = "Gameplay"
    IN  IF parentChanged
        THEN IF shouldExist
             THEN IF next # "None" THEN next
                  ELSE IF cur # "None" THEN cur ELSE DefaultGamePhase
             ELSE "None"
        ELSE IF cur # "None" /\ next # "None" THEN next ELSE cur

\* StateScoped(Screen::Gameplay): the balls are despawned when Gameplay is exited
StateScopedBalls(bs, curScreen, newScreen) ==
    IF curScreen = "Gameplay" /\ newScreen # "Gameplay" THEN {} ELSE bs

\* spawn_level, run when Gameplay is entered from another screen: one ball
spawn_level(bs, curScreen, newScreen) ==
    IF curScreen # "Gameplay" /\ newScreen = "Gameplay"
    THEN bs \cup {spawn_ball(bs)}
    ELSE bs

\* every ball served again in each transition that leaves the phase Playing
serve_on_play_start_EveryFrame(bs, side, rng, curPhase, newPhase) ==
    IF newPhase = "Playing"
    THEN {serve_ball(b, side, rng) : b \in bs}
    ELSE bs

\* a ball spawned and served when the query finds none
serve_on_play_start_SpawnIfNone(bs, side, rng, curPhase, newPhase) ==
    IF newPhase = "Playing" /\ curPhase # "Playing"
    THEN {serve_ball(b, side, rng) :
             b \in IF bs = {} THEN {spawn_ball(bs)} ELSE bs}
    ELSE bs

\* serve_on_play_start, run OnEnter(GamePhase::Playing): every ball is served
serve_on_play_start(bs, side, rng, curPhase, newPhase) ==
    IF newPhase = "Playing" /\ curPhase # "Playing"
    THEN {serve_ball(b, side, rng) : b \in bs}
    ELSE bs

\* setup_game_over_screen, run OnEnter(GamePhase::GameOver): expect() on winner()
setup_game_over_screen(s, curPhase, newPhase) ==
    newPhase = "GameOver" /\ curPhase # "GameOver" /\ winner(s) = "None"

\* serve_ball, and with it the random generator, is called in this transition
ServeDue ==
    /\ PhaseAfter(screen, nextScreen, phase, nextPhase) = "Playing"
    /\ phase # "Playing"
    /\ balls # {}

\* the draw that stands for the generator not being called
NoDraw == [angle |-> MIN_SERVE_ANGLE * AnglesPerDegree, sign |-> 1]

ApplyStateTransition(rng) ==
    /\ stage = "StateTransition"
    /\ ~panicked
    /\ ~ServeDue => rng = NoDraw
    /\ LET newScreen == ScreenAfter(screen, nextScreen)
           newPhase  == PhaseAfter(screen, nextScreen, phase, nextPhase)
           scoped    == StateScopedBalls(balls, screen, newScreen)
           level     == spawn_level(scoped, screen, newScreen)
       IN  /\ screen' = newScreen
           /\ nextScreen' = "None"
           /\ phase' = newPhase
           /\ nextPhase' = "None"
           /\ balls' = serve_on_play_start(level, serve_direction, rng,
                                           phase, newPhase)
           /\ panicked' = setup_game_over_screen(score, phase, newPhase)
           /\ Record([Ran("ApplyStateTransition") EXCEPT !.serves =
                  IF newPhase = "Playing" /\ phase # "Playing"
                  THEN {ServeLog(serve_direction, rng) : b \in level}
                  ELSE {}])
    /\ stage' = "FixedUpdate"
    /\ matches' = IF screen # "Gameplay" /\ ScreenAfter(screen, nextScreen) = "Gameplay"
                  THEN matches + 1
                  ELSE matches
    /\ UNCHANGED <<score, serve_direction, goal_timer, resources, probe, sinceGoal>>

-----------------------------------------------------------------------------
(* The Update schedule *)

\* the Score reset on every frame spent in GameOver
GameOverScore_EveryFrame(s, keys) == [left |-> 0, right |-> 0]

\* the reset left out of the Escape branch
GameOverScore_SpaceOnly(s, keys) ==
    IF "Space" \in keys THEN [left |-> 0, right |-> 0] ELSE s

\* the Score after the game-over input
GameOverScore(s, keys) ==
    IF "Space" \in keys \/ "Escape" \in keys THEN [left |-> 0, right |-> 0] ELSE s

\* the title screen requested without any key
GameOverNextScreen_NoKey(cur, keys) == "Title"

\* the NextState<Screen> after the game-over input
GameOverNextScreen(cur, keys) ==
    IF "Space" \in keys THEN "Gameplay"
    ELSE IF "Escape" \in keys THEN "Title"
    ELSE cur

\* handle_game_over_input added to Update without its run condition
GameOverInputRuns_Always(ph) == TRUE

\* the run condition of handle_game_over_input
GameOverInputRuns(ph) == ph = "GameOver"

\* the Score after handle_game_over_input has had its turn in a frame
UpdateScore(s, keys, ph) ==
    IF GameOverInputRuns(ph) THEN GameOverScore(s, keys) ELSE s

\* NextState<Screen> after handle_game_over_input has had its turn in a frame
UpdateNextScreen(cur, keys, ph) ==
    IF GameOverInputRuns(ph) THEN GameOverNextScreen(cur, keys) ELSE cur

\* handle_serve_input added to Update without its run condition
ServeInputRuns_Always(ph, scr) == TRUE

\* the run condition of handle_serve_input
ServeInputRuns(ph, scr) == ph = "WaitingToServe" /\ scr = "Gameplay"

\* NextState<GamePhase> after handle_serve_input has had its turn in a frame
\* with the given keys just pressed
ServeRequest(cur, keys, ph, scr) ==
    IF ServeInputRuns(ph, scr) /\ "Space" \in keys THEN "Playing" ELSE cur

\* ball.rs handle_serve_input, run_if in_state(WaitingToServe) and in_state(Gameplay)
handle_serve_input(keys) ==
    /\ stage = "Update"
    /\ ~panicked
    /\ phase = "WaitingToServe" /\ screen = "Gameplay"
    /\ nextPhase' = ServeRequest(nextPhase, keys, phase, screen)
    /\ score' = UpdateScore(score, keys, phase)
    /\ nextScreen' = UpdateNextScreen(nextScreen, keys, phase)
    /\ stage' = "StateTransition"
    /\ Record([Ran("handle_serve_input") EXCEPT !.keys = keys])
    /\ UNCHANGED <<screen, phase, serve_direction,
                   goal_timer, resources, balls, panicked, probe, matches, sinceGoal>>

\* the ball put in play as soon as the pause is over
PauseRequest_Playing(finished, cur) == IF finished THEN "Playing" ELSE cur

\* the NextState<GamePhase> handle_goal_pause leaves: "Transition to waiting
\* for serve" once the timer is finished
PauseRequest(finished, cur) == IF finished THEN "WaitingToServe" ELSE cur

\* scoring.rs handle_goal_pause, run_if in_state(GoalScored), in a frame with
\* the given delta and keys just pressed; the run condition of
\* handle_serve_input decides whether that system has a turn as well
handle_goal_pause(delta, keys) ==
    /\ stage = "Update"
    /\ ~panicked
    /\ phase = "GoalScored"
    /\ goal_timer' = TimerTick(goal_timer, delta)
    /\ nextPhase' = PauseRequest(goal_timer'.finished,
                                 ServeRequest(nextPhase, keys, phase, screen))
    /\ stage' = "StateTransition"
    /\ sinceGoal' = Min(sinceGoal + delta, GOAL_PAUSE_DURATION + MaxDelta)
    /\ score' = UpdateScore(score, keys, phase)
    /\ nextScreen' = UpdateNextScreen(nextScreen, keys, phase)
    /\ Record([Ran("handle_goal_pause") EXCEPT !.delta = delta, !.keys = keys])
    /\ UNCHANGED <<screen, phase, serve_direction,
                   resources, balls, panicked, probe, matches>>

\* scoring.rs handle_game_over_input, run_if in_state(GameOver)
handle_game_over_input(keys) ==
    /\ stage = "Update"
    /\ ~panicked
    /\ phase = "GameOver"
    /\ score' = UpdateScore(score, keys, phase)
    /\ nextScreen' = UpdateNextScreen(nextScreen, keys, phase)
    /\ stage' = "StateTransition"
    /\ Record([Ran("handle_game_over_input") EXCEPT !.keys = keys])
    /\ UNCHANGED <<screen, phase, nextPhase, serve_direction, goal_timer,
                   resources, balls, panicked, probe, matches, sinceGoal>>

\* While Playing none of the three gated systems runs, whatever the keys and delta.
UpdateWhilePlaying(keys) ==
    /\ stage = "Update"
    /\ ~panicked
    /\ phase = "Playing"
    /\ stage' = "StateTransition"
    /\ nextPhase' = ServeRequest(nextPhase, keys, phase, screen)
    /\ score' = UpdateScore(score, keys, phase)
    /\ nextScreen' = UpdateNextScreen(nextScreen, keys, phase)
    /\ Record([Ran("UpdateWhilePlaying") EXCEPT !.keys = keys])
    /\ UNCHANGED <<screen, phase, serve_direction, goal_timer,
                   resources, balls, panicked, probe, matches, sinceGoal>>

\* The title screen's menu starts a match.
EnterGameplay ==
    /\ stage = "Update"
    /\ ~panicked
    /\ screen = "Title"
    /\ matches < MaxMatches
    /\ nextScreen' = "Gameplay"
    /\ stage' = "StateTransition"
    /\ Record(Ran("EnterGameplay"))
    /\ UNCHANGED <<screen, phase, nextPhase, score, serve_direction,
                   goal_timer, resources, balls, panicked, probe, matches, sinceGoal>>

-----------------------------------------------------------------------------
(* Specifications *)

Frame ==
    \/ \E rng \in RngDraws : ApplyStateTransition(rng)
    \/ \E b \in balls, g \in Goal : BallEntersGoal(b, g)
    \/ \E k1 \in BodyKinds, k2 \in BodyKinds : CollisionStart(k1, k2)
    \/ FixedUpdateDone
    \/ \E keys \in SUBSET Keys : handle_serve_input(keys)
    \/ \E delta \in 0..MaxDelta, keys \in SUBSET Keys : handle_goal_pause(delta, keys)
    \/ \E keys \in SUBSET Keys : handle_game_over_input(keys)
    \/ \E keys \in SUBSET Keys : UpdateWhilePlaying(keys)
    \/ EnterGameplay

Next == Frame

\* goal events come only from a served ball entering a goal
Spec == Init /\ [][Next]_vars

NextStale ==
    \/ Frame
    \/ \E side \in PlayerSide : StaleGoalScored(side)

\* GoalScored may also be triggered when no served ball entered a goal
\* The schedules of a frame always run to their end, and frames with a
\* positive delta and no key pressed keep coming.
Fairness ==
    /\ WF_vars(\E rng \in RngDraws : ApplyStateTransition(rng))
    /\ WF_vars(FixedUpdateDone)
    /\ SF_vars(\E delta \in 1..MaxDelta : handle_goal_pause(delta, {}))

SpecFair == Init /\ [][Next]_vars /\ Fairness

SpecStale == Init /\ [][NextStale]_vars

\* The Update schedule of a frame spent in Playing runs to its end, the
\* player presses Space again and again while waiting to serve, and a ball
\* in play gets into a goal sooner or later.
MatchFairness ==
    /\ WF_vars(\E keys \in SUBSET Keys : UpdateWhilePlaying(keys))
    /\ SF_vars(\E keys \in SUBSET Keys : "Space" \in keys /\ handle_serve_input(keys))
    /\ SF_vars(\E b \in balls, g \in Goal : BallEntersGoal(b, g))

\* a match that is played on
SpecMatch == Init /\ [][Next]_vars /\ Fairness /\ MatchFairness

-----------------------------------------------------------------------------
(* The Score methods on their own: every pair of counts up to MaxProbe *)

InitScore ==
    /\ screen = "Title"
    /\ nextScreen = "None"
    /\ phase = "None"
    /\ nextPhase = "None"
    /\ score = DefaultScore
    /\ serve_direction = DefaultPlayerSide
    /\ goal_timer = DefaultGoalTimer
    /\ resources = InitResources
    /\ balls = {}
    /\ panicked = FALSE
    /\ stage = "Update"
    /\ op = NoOp
    /\ pre = [screen |-> "Title", nextScreen |-> "None", phase |-> "None",
              nextPhase |-> "None", score |-> DefaultScore,
              serve_direction |-> DefaultPlayerSide,
              goal_timer |-> DefaultGoalTimer, balls |-> {}]
    /\ matches = 0
    /\ sinceGoal = 0
    /\ \E l \in 0..MaxProbe, r \in 0..MaxProbe :
          probe = [left |-> l, right |-> r, hasCalled |-> FALSE, has |-> FALSE,
                   winCalled |-> FALSE, win |-> "None",
                typeCalled |-> FALSE, type |-> "None"]

ProbeScore == [left |-> probe.left, right |-> probe.right]

CallHasWinner ==
    /\ ~probe.hasCalled
    /\ probe' = [probe EXCEPT !.hasCalled = TRUE, !.has = has_winner(ProbeScore)]
    /\ UNCHANGED <<progVars, stage, op, pre, matches, sinceGoal>>

CallWinner ==
    /\ ~probe.winCalled
    /\ probe' = [probe EXCEPT !.winCalled = TRUE, !.win = winner(ProbeScore)]
    /\ UNCHANGED <<progVars, stage, op, pre, matches, sinceGoal>>

\* the win_type expression, evaluated as the goal observer evaluates it
CallWinType ==
    /\ ~probe.typeCalled
    /\ probe' = [probe EXCEPT !.typeCalled = TRUE, !.type = win_type(ProbeScore)]
    /\ UNCHANGED <<progVars, stage, op, pre, matches, sinceGoal>>

NextScore == CallHasWinner \/ CallWinner \/ CallWinType

SpecScore == InitScore /\ [][NextScore]_vars

-----------------------------------------------------------------------------
(* movement.rs: apply_screen_wrap on its own, in f32 arithmetic *)

\* Coordinates are f32.  They are counted in units of 2^-15, the spacing of
\* the f32 values from 256 to 512, where the half sizes of the wrap lie.
UnitsPerOne == 32768

Abs(x) == IF x < 0 THEN -x ELSE x

\* the spacing of the f32 values around a magnitude m below 2048, in units
Ulp(m) ==
    IF m < 512 * UnitsPerOne THEN 1
    ELSE IF m < 1024 * UnitsPerOne THEN 2
    ELSE 4

\* rounding of an exact result to f32: to the nearest value, ties to the
\* one with the even mantissa
RoundF32(x) ==
    LET m == Abs(x)
        u == Ulp(m)
        q == m \div u
        r == m % u
        n == IF 2 * r < u THEN q
             ELSE IF 2 * r > u THEN q + 1
             ELSE IF q % 2 = 0 THEN q ELSE q + 1
    IN  Sign(x) * n * u

\* the % of f32: the remainder with the sign of the dividend, which is exact
RemF32(a, b) == Sign(a) * (Abs(a) % Abs(b))

\* f32::rem_euclid: r = a % b, and r + |b| when r is negative
rem_euclid(a, b) ==
    LET r == RemF32(a, b)
    IN  IF r < 0 THEN RoundF32(r + Abs(b)) ELSE r

\* the window of the test: 800 x 600
WindowSizes == {800, 600}

\* "Hardcoded 256 so entity/sprite is completely off screen"
WrapSize(window) == RoundF32((window + 256) * UnitsPerOne)

WrapHalf(window) == RoundF32(WrapSize(window) \div 2)

\* apply_screen_wrap on one coordinate:
\* (position + half_size).rem_euclid(size) - half_size
apply_screen_wrap(position, window) ==
    LET size      == WrapSize(window)
        half_size == WrapHalf(window)
    IN  RoundF32(rem_euclid(RoundF32(position + half_size), size) - half_size)

\* the coordinates tried lie around 0, 427, the half sizes and the sizes, on
\* both sides of the origin
WrapLandmarks == {0, 427} \cup {(w + 256) \div 2 : w \in WindowSizes}
                         \cup {w + 256 : w \in WindowSizes}

\* the landmarks and the f32 values next to them
WrapInputs ==
    {sg * (c * UnitsPerOne + k * Ulp(c * UnitsPerOne)) :
        sg \in {1, -1}, c \in WrapLandmarks, k \in (-MaxNudge)..MaxNudge}

InitWrap ==
    /\ screen = "Title"
    /\ nextScreen = "None"
    /\ phase = "None"
    /\ nextPhase = "None"
    /\ score = DefaultScore
    /\ serve_direction = DefaultPlayerSide
    /\ goal_timer = DefaultGoalTimer
    /\ resources = InitResources
    /\ balls = {}
    /\ panicked = FALSE
    /\ stage = "Update"
    /\ op = NoOp
    /\ pre = [screen |-> "Title", nextScreen |-> "None", phase |-> "None",
              nextPhase |-> "None", score |-> DefaultScore,
              serve_direction |-> DefaultPlayerSide,
              goal_timer |-> DefaultGoalTimer, balls |-> {}]
    /\ \E p \in WrapInputs, w \in WindowSizes :
          probe = [position |-> p, window |-> w, runs |-> 0, translation |-> p,
                   before |-> p]
    /\ matches = 0
    /\ sinceGoal = 0

\* one run of the system on a ScreenWrap entity at probe.translation
RunScreenWrap ==
    /\ probe.runs < 2
    /\ probe' = [probe EXCEPT
                   !.runs = @ + 1,
                   !.before = probe.translation,
                   !.translation = apply_screen_wrap(probe.translation, probe.window)]
    /\ UNCHANGED <<progVars, stage, op, pre, matches, sinceGoal>>

NextWrap == RunScreenWrap

SpecWrap == InitWrap /\ [][NextWrap]_vars

-----------------------------------------------------------------------------
(* Vocabulary of the properties *)

\* the win rule as the specification words it
SideWins(own, other) == own >= 11 \/ (own >= 7 /\ other = 0)
RuleHasWinner(s) == SideWins(s.left, s.right) \/ SideWins(s.right, s.left)

Total(s) == s.left + s.right

GoalRan == op.name \in {"BallEntersGoal", "StaleGoalScored"}

\* the last step resolved a goal by op.side: its count is one more, the other's is kept
PointAdded ==
    IF op.side = "Left"
    THEN score.left = pre.score.left + 1 /\ score.right = pre.score.right
    ELSE score.right = pre.score.right + 1 /\ score.left = pre.score.left

-----------------------------------------------------------------------------
(* C1 *)

\* C1: a GoalScored event handled while the phase is not Playing leaves
\* the Score as it was before the event.
C1_GoalOutsidePlayingKeepsScore ==
    (GoalRan /\ pre.screen = "Gameplay" /\ pre.phase # "Playing")
        => score = pre.score

-----------------------------------------------------------------------------
(* C2 *)

\* C2: a goal by side s handled while Playing adds exactly 1 to the count of
\* s and keeps the other count, removes the ball that was in play, and, when
\* the new Score has no winner, requests GoalScored; the request stays
\* pending until the next state transition, which makes the phase GoalScored.
C2_GoalInPlaying ==
    /\ (op.name = "BallEntersGoal" /\ pre.phase = "Playing")
          => /\ PointAdded
             /\ BallIds(pre.balls) \cap BallIds(balls) = {}
             /\ (~RuleHasWinner(score) => nextPhase = "GoalScored")
    /\ (pre.phase = "Playing" /\ pre.nextPhase = "GoalScored")
          => IF op.name = "ApplyStateTransition"
             THEN phase = "GoalScored"
             ELSE phase = "Playing" /\ nextPhase = "GoalScored"

C2_Witness ==
    /\ op.name = "ApplyStateTransition"
    /\ pre.phase = "Playing"
    /\ phase = "GoalScored"
    /\ Total(score) = 3
    /\ Cardinality(balls) = 1

-----------------------------------------------------------------------------
(* C3 *)

\* C3: once the restart command (Space) issued in GameOver has been taken up
\* by the next state transition, the Score is (0,0) and the phase is
\* WaitingToServe.
C3_RestartReachesWaitingToServe ==
    (/\ op.name = "ApplyStateTransition"
     /\ pre.phase = "GameOver"
     /\ pre.nextScreen = "Gameplay")
        => /\ score = [left |-> 0, right |-> 0]
           /\ phase = "WaitingToServe"

-----------------------------------------------------------------------------
(* C4 *)

\* C4: a GoalScored event handled while the phase is not Playing changes
\* neither the phase, the pending next phase, the serving side, the goal
\* timer nor the set of live balls.
C4_GoalOutsidePlayingIgnored ==
    (GoalRan /\ pre.screen = "Gameplay" /\ pre.phase # "Playing")
        => /\ phase = pre.phase
           /\ nextPhase = pre.nextPhase
           /\ serve_direction = pre.serve_direction
           /\ goal_timer = pre.goal_timer
           /\ balls = pre.balls

-----------------------------------------------------------------------------
(* C5 *)

\* C5: one ball-enters-goal occurrence raises left+right by exactly 1, the
\* ball that entered the goal is gone afterwards and no served ball is left
\* to trigger again; the total never rises without such an occurrence.
C5_OnePointPerGoal ==
    /\ op.name = "BallEntersGoal"
          => /\ Total(score) = Total(pre.score) + 1
             /\ BallIds(pre.balls) \cap BallIds(balls) = {}
             /\ \A b \in balls : ~Moving(b)
    /\ Total(score) > Total(pre.score) => op.name = "BallEntersGoal"
    /\ Total(score) <= Total(pre.score) + 1

C5_Witness ==
    /\ op.name = "BallEntersGoal"
    /\ Total(pre.score) = 4
    /\ Total(score) = 5
    /\ \E b \in pre.balls : Moving(b)

-----------------------------------------------------------------------------
(* C6 *)

\* C6: for every pair (l, r), has_winner() is true exactly when l >= 11, or
\* r >= 11, or (l >= 7 and r = 0), or (r >= 7 and l = 0).
C6_HasWinnerRule ==
    probe.hasCalled =>
        (probe.has <=>
            \/ probe.left >= 11
            \/ probe.right >= 11
            \/ (probe.left >= 7 /\ probe.right = 0)
            \/ (probe.right >= 7 /\ probe.left = 0))

C6_Witness ==
    /\ probe.hasCalled
    /\ probe.left = 7 /\ probe.right = 0
    /\ probe.has

-----------------------------------------------------------------------------
(* C7 *)

\* C7: for every pair (l, r), winner() is a side exactly when has_winner()
\* is true and None otherwise, and the side it names satisfies a win
\* condition itself.
C7_WinnerRule ==
    (probe.hasCalled /\ probe.winCalled) =>
        /\ (probe.win # "None") <=> probe.has
        /\ probe.win = "Left" => SideWins(probe.left, probe.right)
        /\ probe.win = "Right" => SideWins(probe.right, probe.left)

C7_Witness ==
    /\ probe.hasCalled /\ probe.winCalled
    /\ probe.left = 3 /\ probe.right = 11
    /\ probe.win = "Right"

-----------------------------------------------------------------------------
(* C8 *)

\* C8: when a goal handled in Playing gives the Score a winner, GameOver is
\* requested in that step, the goal timer is not started and no ball is
\* spawned; the phase then changes from Playing straight to GameOver, and
\* GoalScored is never the phase of a Score that has a winner.
C8_WinningGoalGoesToGameOver ==
    /\ (op.name = "BallEntersGoal" /\ pre.phase = "Playing" /\ RuleHasWinner(score))
          => /\ nextPhase = "GameOver"
             /\ goal_timer = pre.goal_timer
             /\ balls = {}
    /\ (pre.phase = "Playing" /\ pre.nextPhase = "GameOver")
          => IF op.name = "ApplyStateTransition"
             THEN phase = "GameOver" /\ balls = {} /\ goal_timer = pre.goal_timer
             ELSE phase = "Playing" /\ nextPhase = "GameOver"
    /\ (phase = "GoalScored" \/ nextPhase = "GoalScored") => ~RuleHasWinner(score)

C8_Witness ==
    /\ op.name = "BallEntersGoal"
    /\ pre.phase = "Playing"
    /\ score = [left |-> 11, right |-> 9]
    /\ nextPhase = "GameOver"

-----------------------------------------------------------------------------
(* C9 *)

\* C9: after a goal that does not end the match the server is the side
\* scored against: a goal by Left makes Right serve, a goal by Right makes
\* Left serve.
C9_ScoredAgainstServes ==
    (op.name = "BallEntersGoal" /\ ~RuleHasWinner(score))
        => /\ op.side = "Left" => serve_direction = "Right"
           /\ op.side = "Right" => serve_direction = "Left"

C9_Witness ==
    /\ op.name = "BallEntersGoal"
    /\ ~RuleHasWinner(score)
    /\ op.side = "Right"
    /\ pre.serve_direction = "Right"
    /\ serve_direction = "Left"

-----------------------------------------------------------------------------
(* C10 *)

\* C10: the Score changes only when a goal is resolved (one count +1, the
\* other kept) or when Space or Escape is pressed in GameOver (reset to
\* (0,0)); serve input, timer ticks and state transitions never change it,
\* so within a match no count ever decreases.
C10_ScoreChangesOnlyByGoalOrRestart ==
    /\ score # pre.score
          => \/ op.name = "BallEntersGoal" /\ PointAdded
             \/ /\ op.name = "handle_game_over_input"
                /\ pre.phase = "GameOver"
                /\ op.keys # {}
                /\ score = [left |-> 0, right |-> 0]
    /\ op.name \in {"handle_serve_input", "handle_goal_pause", "ApplyStateTransition",
                    "FixedUpdateDone", "UpdateWhilePlaying", "EnterGameplay"}
          => score = pre.score
    /\ op.name # "handle_game_over_input"
          => score.left >= pre.score.left /\ score.right >= pre.score.right

C10_Witness ==
    /\ op.name = "handle_game_over_input"
    /\ pre.score = [left |-> 7, right |-> 0]
    /\ score = [left |-> 0, right |-> 0]

-----------------------------------------------------------------------------
(* C11 *)

\* C11: a ball entering the Left goal emits GoalScored for Right and the
\* point goes to Right; a ball entering the Right goal emits GoalScored for
\* Left and the point goes to Left.
C11_GoalHitScoresForOpposite ==
    op.name = "BallEntersGoal"
        => /\ op.goal = "Left"
                => /\ op.side = "Right"
                   /\ score.right = pre.score.right + 1
                   /\ score.left = pre.score.left
           /\ op.goal = "Right"
                => /\ op.side = "Left"
                   /\ score.left = pre.score.left + 1
                   /\ score.right = pre.score.right

C11_Witness ==
    /\ op.name = "BallEntersGoal"
    /\ op.goal = "Left"
    /\ pre.score = [left |-> 2, right |-> 1]
    /\ score = [left |-> 2, right |-> 2]

-----------------------------------------------------------------------------
(* C12 *)

\* C12: a collision-start of a pair other than ball and goal (ball-paddle,
\* ball-boundary, paddle-boundary) emits no GoalScored: Score, phase, pending
\* phase, server, timer and balls are as before; and no body other than a
\* ball collides with a goal at all.
C12_OnlyBallGoalEmits ==
    /\ op.name = "CollisionStart"
          => /\ score = pre.score
             /\ phase = pre.phase
             /\ nextPhase = pre.nextPhase
             /\ serve_direction = pre.serve_direction
             /\ goal_timer = pre.goal_timer
             /\ balls = pre.balls
    /\ \A k \in BodyKinds \ {"Ball"} : ~Collides(k, "Goal")
    /\ Total(score) > Total(pre.score) => op.pair = {} /\ op.goal \in Goal

C12_Witness ==
    /\ op.name = "CollisionStart"
    /\ op.pair = {"Ball", "Paddle"}
    /\ phase = "Playing"
    /\ Total(score) = 2

-----------------------------------------------------------------------------
(* C13 *)

\* C13: the first match starts with phase WaitingToServe, server Left and
\* Score (0,0): that is the state when Screen::Gameplay is entered for the
\* first time, and no phase exists before.
C13_FirstMatchStart ==
    /\ (matches = 1 /\ op.name = "ApplyStateTransition" /\ pre.screen = "Title")
          => /\ phase = "WaitingToServe"
             /\ serve_direction = "Left"
             /\ score = [left |-> 0, right |-> 0]
    /\ matches = 0 => phase = "None" /\ screen = "Title"

C13_Witness ==
    /\ matches = 1
    /\ op.name = "ApplyStateTransition"
    /\ pre.screen = "Title"
    /\ screen = "Gameplay"
    /\ phase = "WaitingToServe"

-----------------------------------------------------------------------------
(* C14 *)

\* C14: the phase stops being GameOver only in a state transition that
\* applies a screen change requested by Space or Escape in
\* handle_game_over_input; while the phase is GameOver no other phase is
\* pending, so no timer tick, goal or serve step moves the phase out of it.
C14_GameOverLeftOnlyByCommand ==
    /\ (pre.phase = "GameOver" /\ phase # "GameOver")
          => /\ op.name = "ApplyStateTransition"
             /\ pre.nextScreen \in {"Gameplay", "Title"}
    /\ (pre.phase = "GameOver" /\ nextScreen # pre.nextScreen /\ nextScreen # "None")
          => /\ op.name = "handle_game_over_input"
             /\ op.keys # {}
    /\ phase = "GameOver" => nextPhase = "None"

C14_Witness ==
    /\ op.name = "ApplyStateTransition"
    /\ pre.phase = "GameOver"
    /\ pre.nextScreen = "Title"
    /\ phase = "None"

-----------------------------------------------------------------------------
(* C15 *)

ProbeAll == probe.hasCalled /\ probe.winCalled /\ probe.typeCalled

\* C15: for every score with one side at 7 or more and the other at 0,
\* has_winner() is true, winner() is the side with the points and the win
\* type is the mercy label.
C15_MercyScore ==
    ProbeAll =>
        /\ (probe.left >= 7 /\ probe.right = 0)
              => probe.has /\ probe.win = "Left" /\ probe.type = "Mercy win"
        /\ (probe.right >= 7 /\ probe.left = 0)
              => probe.has /\ probe.win = "Right" /\ probe.type = "Mercy win"

C15_Witness ==
    /\ ProbeAll
    /\ probe.left = 9 /\ probe.right = 0
    /\ probe.type = "Mercy win"

-----------------------------------------------------------------------------
(* C16 *)

\* C16: for every score where one side has 11 or more and the other has
\* between 1 and 10, the winner is the side with 11 or more and the win type
\* is "Game win".
C16_NormalWinScore ==
    ProbeAll =>
        /\ (probe.left >= 11 /\ probe.right \in 1..10)
              => probe.win = "Left" /\ probe.type = "Game win"
        /\ (probe.right >= 11 /\ probe.left \in 1..10)
              => probe.win = "Right" /\ probe.type = "Game win"

C16_Witness ==
    /\ ProbeAll
    /\ probe.left = 11 /\ probe.right = 5
    /\ probe.win = "Left"
    /\ probe.type = "Game win"

-----------------------------------------------------------------------------
(* C17 *)

\* a score that meets the normal-win and the mercy condition at once
BothConditions == \/ probe.left >= 11 /\ probe.right = 0
                  \/ probe.right >= 11 /\ probe.left = 0

\* C17 as stated: when both conditions hold the label is "Game win" and the
\* winner is the side with the points.
C17_NormalLabelHasPriority ==
    (ProbeAll /\ BothConditions)
        => /\ probe.type = "Game win"
           /\ probe.win = (IF probe.right = 0 THEN "Left" ELSE "Right")

\* C17 amended: when a score meets both conditions the mercy test decides
\* the label, which is "Mercy win", and the winner is the side with the
\* points, the same side under either condition.
C17_MercyLabelHasPriority ==
    (ProbeAll /\ BothConditions)
        => /\ probe.type = "Mercy win"
           /\ probe.win = (IF probe.right = 0 THEN "Left" ELSE "Right")
           /\ SideWins(probe.left, probe.right) # SideWins(probe.right, probe.left)

C17_Witness ==
    /\ ProbeAll
    /\ probe.left = 11 /\ probe.right = 0
    /\ probe.type = "Mercy win"
    /\ probe.win = "Left"

-----------------------------------------------------------------------------
(* C18 *)

GoalTimerExists == "GoalTimer" \in resources

\* C18 as stated: the goal pause timer exists only while the phase is
\* GoalScored, so in WaitingToServe, Playing and GameOver no timer exists.
C18_TimerOnlyInGoalScored ==
    phase \in {"WaitingToServe", "Playing", "GameOver"} => ~GoalTimerExists

\* C18 amended: the goal pause timer exists from the construction of the app
\* on, in every phase, and is never destroyed; a goal without a winner
\* replaces it by a fresh one, and outside these goals it changes only by
\* the ticks made while the phase is GoalScored.
C18_TimerAlwaysExists ==
    /\ GoalTimerExists
    /\ goal_timer # pre.goal_timer
         => \/ op.name = "handle_goal_pause" /\ pre.phase = "GoalScored"
            \/ GoalRan /\ nextPhase = "GoalScored"
    /\ (GoalRan /\ nextPhase = "GoalScored")
         => goal_timer = TimerFromSeconds(GOAL_PAUSE_DURATION)

\* the pause is over and the phase has left GoalScored: the timer is still
\* there, finished
C18_Witness ==
    /\ phase = "WaitingToServe"
    /\ pre.phase = "GoalScored"
    /\ GoalTimerExists
    /\ goal_timer.finished
    /\ goal_timer.duration = GOAL_PAUSE_DURATION

-----------------------------------------------------------------------------
(* C19 *)

\* the last step resolved a goal that left no winner
PauseStarted == GoalRan /\ nextPhase = "GoalScored"

\* C19: the timer started by a goal starts from zero elapsed time with the
\* goal pause duration, and the phase does not leave GoalScored for
\* WaitingToServe, nor is that change requested, before the deltas ticked
\* since the goal add up to the goal pause duration.
C19_PauseLastsGoalPauseDuration ==
    /\ PauseStarted
         => /\ goal_timer.elapsed = 0
            /\ ~goal_timer.finished
            /\ goal_timer.duration = GOAL_PAUSE_DURATION
            /\ sinceGoal = 0
    /\ (phase = "GoalScored" /\ nextPhase = "WaitingToServe")
         => sinceGoal >= GOAL_PAUSE_DURATION
    /\ (pre.phase = "GoalScored" /\ phase = "WaitingToServe")
         => sinceGoal >= GOAL_PAUSE_DURATION
    /\ phase = "GoalScored" => goal_timer.elapsed = Min(sinceGoal, GOAL_PAUSE_DURATION)

\* the pause ended after several ticks, the last of which overshot the duration
C19_Witness ==
    /\ pre.phase = "GoalScored"
    /\ phase = "WaitingToServe"
    /\ op.name = "ApplyStateTransition"
    /\ sinceGoal > GOAL_PAUSE_DURATION
    /\ goal_timer.finished

-----------------------------------------------------------------------------
(* C20 *)

\* C20: every GoalScored phase ends.  When frames with a positive delta keep
\* coming, a state in GoalScored is followed by one in WaitingToServe, with
\* no key needed, and the phase that follows GoalScored is never any other
\* than WaitingToServe.
C20_GoalScoredEnds ==
    /\ (phase = "GoalScored") ~> (phase = "WaitingToServe")
    /\ [][phase = "GoalScored" => phase' \in {"GoalScored", "WaitingToServe"}]_vars

\* GoalScored has just been left for WaitingToServe on the request of
\* handle_goal_pause, no key having been read during the pause
C20_Witness ==
    /\ op.name = "ApplyStateTransition"
    /\ pre.phase = "GoalScored"
    /\ pre.nextPhase = "WaitingToServe"
    /\ phase = "WaitingToServe"
    /\ nextPhase = "None"

-----------------------------------------------------------------------------
(* C21 *)

\* the last step was an Update frame with Space just pressed, in the given phase
SpaceIn(ph) ==
    /\ op.name \in {"handle_serve_input", "handle_goal_pause", "UpdateWhilePlaying"}
    /\ "Space" \in op.keys
    /\ pre.phase = ph

\* C21: the phase becomes Playing only from WaitingToServe, on a request made
\* by Space in WaitingToServe; Space pressed while the phase is Playing or
\* GoalScored requests nothing and changes neither the phase, the score, the
\* server nor the balls and their velocities.
C21_ServeOnlyFromWaitingToServe ==
    /\ (phase = "Playing" /\ pre.phase # "Playing")
         => pre.phase = "WaitingToServe" /\ pre.nextPhase = "Playing"
    /\ (nextPhase = "Playing" /\ pre.nextPhase # "Playing")
         => SpaceIn("WaitingToServe")
    /\ (SpaceIn("Playing") \/ SpaceIn("GoalScored"))
         => /\ phase = pre.phase
            /\ nextPhase # "Playing"
            /\ score = pre.score
            /\ serve_direction = pre.serve_direction
            /\ balls = pre.balls

\* Space pressed during the goal pause, the timer still running
C21_Witness ==
    /\ SpaceIn("GoalScored")
    /\ ~goal_timer.finished
    /\ nextPhase = "None"
    /\ \E b \in balls : ~Moving(b)

-----------------------------------------------------------------------------
(* C22 *)

\* C22: at most one ball is alive in every reachable state, whatever the
\* spawns, goals, serves, restarts and frames before it.
C22_AtMostOneBall == Cardinality(balls) <= 1

\* a goal without a winner has just replaced the one ball by a fresh one
C22_Witness ==
    /\ GoalRan
    /\ Cardinality(pre.balls) = 1
    /\ Cardinality(balls) = 1
    /\ balls # pre.balls
    /\ matches = 2

-----------------------------------------------------------------------------
(* C23 *)

AtRestAtCentre(b) == ~Moving(b) /\ b.at = "Centre"

\* ball b moves now and did not move, or did not exist, before the last step
StartedMoving(b) ==
    /\ Moving(b)
    /\ \A b0 \in pre.balls : b0.id = b.id => ~Moving(b0)

\* C23: a ball gets a velocity only when Playing is entered, so while the
\* phase is WaitingToServe or GoalScored every ball rests at the court centre.
C23_NoServeBeforePlaying ==
    /\ phase \in {"WaitingToServe", "GoalScored"}
         => \A b \in balls : AtRestAtCentre(b)
    /\ (\E b \in balls : StartedMoving(b))
         => /\ op.name = "ApplyStateTransition"
            /\ pre.phase = "WaitingToServe"
            /\ phase = "Playing"

\* the goal pause after a rally: the replacement ball rests at the centre
\* while the ball that scored had left it
C23_Witness ==
    /\ phase = "GoalScored"
    /\ op.name = "ApplyStateTransition"
    /\ \E b \in balls : AtRestAtCentre(b)
    /\ sinceGoal = 0
    /\ score # DefaultScore

-----------------------------------------------------------------------------
(* C24 *)

\* the last step entered Playing, and no ball was alive to be served
PlayingEnteredWithoutBall ==
    /\ op.name = "ApplyStateTransition"
    /\ phase = "Playing"
    /\ pre.phase # "Playing"
    /\ pre.balls = {}

\* C24: Playing entered with no ball alive is a no-op of the serve: nothing
\* panics, no ball is created, the score and the server stay as they were.
C24_ServeWithoutBallIsNoOp ==
    PlayingEnteredWithoutBall
        => /\ ~panicked
           /\ balls = {}
           /\ score = pre.score
           /\ serve_direction = pre.serve_direction

\* Space in WaitingToServe replaced the pending GameOver of a goal that had
\* removed the ball: Playing is entered with nothing to serve
C24_Witness ==
    /\ PlayingEnteredWithoutBall
    /\ pre.nextPhase = "Playing"
    /\ has_winner(score)
    /\ balls = {}
    /\ ~panicked

-----------------------------------------------------------------------------
(* C25 *)

\* C25: for every angle drawn from 15 to 45 degrees and either sign, a serve
\* by Left has a strictly positive x velocity, a serve by Right a strictly
\* negative one, and the y velocity is never zero; the served ball moves
\* accordingly.
C25_ServeDirectionFixedBySide ==
    /\ \A sv \in op.serves :
          /\ pre.serve_direction = "Left"  => sv[3] > 0
          /\ pre.serve_direction = "Right" => sv[3] < 0
          /\ sv[4] # 0
          /\ (sv[4] > 0) = (sv[2] = 1)
    /\ op.serves # {}
         => \A b \in balls :
               /\ b.vx = (IF pre.serve_direction = "Left" THEN 1 ELSE -1)
               /\ b.vy # 0

\* Right has served downwards at the steepest angle
C25_Witness ==
    /\ pre.serve_direction = "Right"
    /\ \E sv \in op.serves :
          /\ sv[1] = MAX_SERVE_ANGLE * AnglesPerDegree
          /\ sv[2] = -1
          /\ sv[3] < 0
          /\ sv[4] < 0
    /\ \E b \in balls : b.vx = -1 /\ b.vy = -1

-----------------------------------------------------------------------------
(* C26 *)

\* the last step was an Update frame with Escape, and not Space, just pressed
EscapeIn(ph) ==
    /\ op.name \in {"handle_serve_input", "handle_goal_pause",
                    "UpdateWhilePlaying", "handle_game_over_input"}
    /\ "Escape" \in op.keys
    /\ "Space" \notin op.keys
    /\ pre.phase = ph

\* the last step applied a quit requested in GameOver
QuitApplied ==
    /\ op.name = "ApplyStateTransition"
    /\ pre.phase = "GameOver"
    /\ pre.nextScreen = "Title"

\* C26: Escape in GameOver resets the score to 0-0 and requests the title
\* screen, and the transition that follows leaves the gameplay screen and
\* ends the phase; Escape in WaitingToServe, Playing or GoalScored is read
\* by no system and changes nothing.
C26_QuitOnlyInGameOver ==
    /\ EscapeIn("GameOver")
         => score = DefaultScore /\ nextScreen = "Title"
    /\ QuitApplied
         => /\ screen = "Title"
            /\ phase = "None"
            /\ balls = {}
            /\ score = DefaultScore
    /\ (EscapeIn("WaitingToServe") \/ EscapeIn("Playing") \/ EscapeIn("GoalScored"))
         => /\ score = pre.score
            /\ screen = pre.screen
            /\ nextScreen = pre.nextScreen
            /\ phase = pre.phase
            /\ serve_direction = pre.serve_direction
            /\ balls = pre.balls
            /\ nextPhase = (IF goal_timer.finished /\ pre.phase = "GoalScored"
                            THEN "WaitingToServe"
                            ELSE pre.nextPhase)

\* the match has been left for the title screen after a mercy win
C26_Witness ==
    /\ QuitApplied
    /\ pre.screen = "Gameplay"
    /\ screen = "Title"
    /\ phase = "None"
    /\ score = DefaultScore

-----------------------------------------------------------------------------
(* C27 *)

\* the last step resolved a goal when no ball was alive
GoalWithoutBall == GoalRan /\ pre.balls = {}

\* C27: removing the ball when none is alive raises no error and leaves the
\* balls as the first removal left them: none, to which the handler adds the
\* one replacement when the goal leaves no winner.
C27_DespawnIdempotent ==
    GoalWithoutBall
        => /\ ~panicked
           /\ DespawnAll(pre.balls) = pre.balls
           /\ balls = (IF nextPhase = "GameOver" THEN {} ELSE {spawn_ball({})})

\* a second goal event after the one that ended the match and removed the ball
C27_Witness ==
    /\ GoalWithoutBall
    /\ pre.phase = "GameOver"
    /\ has_winner(pre.score)
    /\ balls = {}
    /\ ~panicked

-----------------------------------------------------------------------------
(* C28 *)

\* ((p + half) mod size) - half in exact arithmetic, for a positive size
WrapExact(p, size) == ((p + size \div 2) % size) - size \div 2

\* C28: apply_screen_wrap maps a coordinate p to ((p + half) mod size) - half
\* with size = window + 256: a coordinate in [-half, half) is unchanged, half
\* wraps to -half, the result lies in [-half, half), and a second run of the
\* wrap changes nothing.
C28_ScreenWrap ==
    LET size == (probe.window + 256) * UnitsPerOne
        half == size \div 2
    IN  /\ probe.runs = 1
             => /\ probe.translation = WrapExact(probe.position, size)
                /\ (-half <= probe.position /\ probe.position < half)
                      => probe.translation = probe.position
                /\ probe.position = half => probe.translation = -half
                /\ -half <= probe.translation /\ probe.translation < half
        /\ probe.runs = 2 => probe.translation = probe.before

-----------------------------------------------------------------------------
(* C29 *)

\* the edges of the phase machine as documented
DocumentedEdges ==
    {<<"WaitingToServe", "Playing">>,
     <<"Playing", "GoalScored">>,
     <<"Playing", "GameOver">>,
     <<"GoalScored", "WaitingToServe">>,
     <<"GameOver", "WaitingToServe">>}

\* the last step changed the phase from one phase to another
PhaseChanged ==
    /\ pre.phase \in GamePhase
    /\ phase \in GamePhase
    /\ phase # pre.phase

\* C29: the phase changes only along the documented edges, each for its
\* documented cause: WaitingToServe -> Playing on a serve request, Playing ->
\* GoalScored or GameOver on the request of a goal resolved in Playing,
\* GoalScored -> WaitingToServe with the timer finished; Playing is entered
\* only from WaitingToServe and left only by a goal.
C29_PhaseChangesAlongEdges ==
    /\ PhaseChanged
         => /\ <<pre.phase, phase>> \in DocumentedEdges
            /\ op.name = "ApplyStateTransition"
            /\ pre.nextPhase = phase
            /\ pre.phase = "GoalScored" => goal_timer.finished
    /\ (phase = "Playing" /\ pre.phase # "Playing")
         => pre.phase = "WaitingToServe"
    /\ (nextPhase \in {"GoalScored", "GameOver"} /\ pre.nextPhase # nextPhase)
         => GoalRan /\ pre.phase = "Playing"
    /\ (pre.phase = "Playing" /\ phase # "Playing")
         => phase \in {"GoalScored", "GameOver"}

\* the second match has ended: Playing left for GameOver
C29_Witness ==
    /\ PhaseChanged
    /\ pre.phase = "Playing"
    /\ phase = "GameOver"
    /\ matches = 2

-----------------------------------------------------------------------------
(* C30 *)

\* the phase in force at the end of a frame: the pending one, if any
PhaseInForce == IF nextPhase # "None" THEN nextPhase ELSE phase

\* the last step applied a restart requested in GameOver
RestartApplied ==
    /\ op.name = "ApplyStateTransition"
    /\ pre.phase = "GameOver"
    /\ pre.nextScreen = "Gameplay"

\* at the end of a frame with WaitingToServe or Playing in force, one ball exists
OneBallAtFrameEnd ==
    (stage = "StateTransition" /\ screen = "Gameplay" /\ nextScreen = "None"
        /\ PhaseInForce \in {"WaitingToServe", "Playing"})
        => Cardinality(balls) = 1

\* C30: whenever the phase is WaitingToServe or Playing at the end of a
\* frame exactly one ball exists, and the restart from GameOver leads to a
\* WaitingToServe phase with exactly one ball, ready to be served.
C30_OneBallWheneverServable ==
    /\ OneBallAtFrameEnd
    /\ RestartApplied
         => /\ phase = "WaitingToServe"
            /\ Cardinality(balls) = 1

-----------------------------------------------------------------------------
(* C31 *)

\* a phase chosen by a goal resolution is pending
ResolutionPending(np) == np \in {"GoalScored", "GameOver"}

\* C31: a goal resolution is one step that adds the point, removes the ball,
\* checks for a winner and chooses the next phase; until that phase takes
\* effect no frame, whatever keys and delta it brings, changes the choice,
\* the score or the balls, and the transition that follows enters it.
C31_GoalResolutionAtomic ==
    /\ GoalRan
         => /\ PointAdded
            /\ pre.balls \cap balls = {}
            /\ nextPhase = (IF has_winner(score) THEN "GameOver" ELSE "GoalScored")
            /\ Cardinality(balls) = (IF has_winner(score) THEN 0 ELSE 1)
    /\ (ResolutionPending(pre.nextPhase) /\ op.name # "ApplyStateTransition")
         => /\ nextPhase = pre.nextPhase
            /\ score = pre.score
            /\ balls = pre.balls
            /\ phase = pre.phase
    /\ (ResolutionPending(pre.nextPhase) /\ op.name = "ApplyStateTransition")
         => phase = pre.nextPhase /\ score = pre.score

\* Space and Escape pressed in the frame of the winning goal, before GameOver
\* is entered: the choice stands
C31_Witness ==
    /\ op.name = "UpdateWhilePlaying"
    /\ op.keys = {"Space", "Escape"}
    /\ pre.nextPhase = "GameOver"
    /\ nextPhase = "GameOver"
    /\ phase = "Playing"
    /\ has_winner(score)

-----------------------------------------------------------------------------
(* C32 *)

\* the last step entered GameOver
GameOverEntered ==
    /\ op.name = "ApplyStateTransition"
    /\ phase = "GameOver"
    /\ pre.phase # "GameOver"

\* C32: whenever GameOver is entered the score has a winner: winner() is
\* not None at the unwrap of the goal handler nor at the expect made when
\* GameOver is entered, and neither ever panics.
C32_GameOverHasWinner ==
    /\ ~panicked
    /\ (GoalRan /\ nextPhase = "GameOver")
         => has_winner(score) /\ winner(score) # "None"
    /\ GameOverEntered
         => has_winner(score) /\ winner(score) # "None"

\* GameOver entered on a win by Right at 11
C32_Witness ==
    /\ GameOverEntered
    /\ pre.phase = "Playing"
    /\ score.right = MAX_SCORE
    /\ winner(score) = "Right"
    /\ ~panicked

-----------------------------------------------------------------------------
(* C33 *)

\* the scores a match can end on
FinalScores ==
    {[left |-> 7, right |-> 0], [left |-> 0, right |-> 7]}
        \cup {[left |-> 11, right |-> k] : k \in 1..10}
        \cup {[left |-> k, right |-> 11] : k \in 1..10}

\* C33: neither count ever exceeds 11; the score with which GameOver is
\* entered is 7-0, 0-7, 11-k or k-11 with k from 1 to 10, and the label
\* reported for it is the mercy label exactly when it is 7-0 or 0-7.
C33_FinalScores ==
    /\ score.left <= 11 /\ score.right <= 11
    /\ GameOverEntered
         => /\ score \in FinalScores
            /\ (win_type(score) = "Mercy win")
                  = (score \in {[left |-> 7, right |-> 0], [left |-> 0, right |-> 7]})
    /\ (GoalRan /\ nextPhase = "GameOver") => score \in FinalScores

\* GameOver entered at 11-10
C33_Witness ==
    /\ GameOverEntered
    /\ score = [left |-> 11, right |-> 10]
    /\ win_type(score) = "Game win"

-----------------------------------------------------------------------------
(* C34 *)

\* C34: a match ends within 21 points.  The points of a match never add up
\* to more than 21, a score without a winner adds up to 20 at most, and a
\* score with a winner has GameOver requested or in force; when the player
\* keeps serving and the ball in play keeps reaching a goal, a match that
\* is on the Gameplay screen gets to GameOver.
C34_MatchTerminates ==
    /\ [](/\ Total(score) <= 21
          /\ ~has_winner(score) => Total(score) <= 20
          /\ has_winner(score) => "GameOver" \in {phase, nextPhase})
    /\ (screen = "Gameplay") ~> (phase = "GameOver")

\* the 21st point of a match has just been resolved
C34_Witness ==
    /\ GoalRan
    /\ pre.score.left = 10 /\ pre.score.right = 10
    /\ Total(score) = 21
    /\ nextPhase = "GameOver"

-----------------------------------------------------------------------------
(* C35 *)

\* a restart or quit command is read in this step
GameOverCommand ==
    /\ op.name = "handle_game_over_input"
    /\ op.keys \cap {"Space", "Escape"} # {}

\* C35: while the phase is GameOver there is no ball, a step taken in
\* GameOver is never a goal, and it leaves the score as it was unless it
\* reads a restart or quit command, which sets the score to 0-0.
C35_GameOverFrozen ==
    /\ phase = "GameOver" => balls = {}
    /\ pre.phase = "GameOver"
         => /\ ~GoalRan
            /\ score = (IF GameOverCommand THEN [left |-> 0, right |-> 0] ELSE pre.score)

\* a frame spent in GameOver with no command: the final score stands
C35_Witness ==
    /\ op.name = "handle_game_over_input"
    /\ op.keys = {}
    /\ phase = "GameOver"
    /\ balls = {}
    /\ has_winner(score)
    /\ score = pre.score

-----------------------------------------------------------------------------
(* C36 *)

\* the first serve of a match that is not the first one
FirstServeOfLaterMatch ==
    /\ op.name = "ApplyStateTransition"
    /\ op.serves # {}
    /\ matches > 1
    /\ Total(score) = 0

\* C36: the serving side changes only in a goal that does not end the
\* match.  A match-ending goal, the serve, a timer tick, a restart and a
\* quit leave it as it was, and the first serve of a later match goes the
\* way of the side kept from the previous match, not of a default.
C36_ServerChangesOnlyOnGoal ==
    /\ serve_direction # pre.serve_direction
         => GoalRan /\ nextPhase = "GoalScored" /\ ~has_winner(score)
    /\ (GoalRan /\ has_winner(score)) => serve_direction = pre.serve_direction
    /\ (RestartApplied \/ QuitApplied) => serve_direction = pre.serve_direction
    /\ op.name \in {"handle_serve_input", "handle_goal_pause", "handle_game_over_input"}
         => serve_direction = pre.serve_direction
    /\ FirstServeOfLaterMatch
         => /\ serve_direction = pre.serve_direction
            /\ \A sv \in op.serves : Sign(sv[3]) = direction_x(serve_direction)

\* the second match opens with the server kept from the first one, which
\* is not the default side
C36_Witness ==
    /\ FirstServeOfLaterMatch
    /\ serve_direction # DefaultPlayerSide
    /\ \E b \in balls : Moving(b) /\ b.vx = direction_x(serve_direction)

-----------------------------------------------------------------------------
(* C37 *)

\* Playing has just been entered
PlayingEntered ==
    /\ op.name = "ApplyStateTransition"
    /\ phase = "Playing"
    /\ pre.phase # "Playing"

\* C37: the transition that enters Playing serves the one live ball once,
\* toward the side the server side of that moment prescribes, and leaves
\* the server side as it was; a step that starts and ends in Playing
\* serves nothing, and unless it is a goal the ball keeps its velocity.
C37_ServedOncePerPlaying ==
    /\ PlayingEntered
         => /\ Cardinality(pre.balls) = 1
            /\ Cardinality(balls) = 1
            /\ Cardinality(op.serves) = 1
            /\ \A sv \in op.serves : Sign(sv[3]) = direction_x(pre.serve_direction)
            /\ \A b \in balls : StartedMoving(b) /\ b.vx = direction_x(pre.serve_direction)
            /\ serve_direction = pre.serve_direction
    /\ (pre.phase = "Playing" /\ phase = "Playing")
         => /\ op.serves = {}
            /\ ~GoalRan
                 => \A b \in balls :
                        \E b0 \in pre.balls :
                            b0.id = b.id /\ b0.vx = b.vx /\ b0.vy = b.vy

\* a served ball, going the way of the Right server and downwards, after a
\* transition that found the phase Playing already
C37_Witness ==
    /\ op.name = "ApplyStateTransition"
    /\ pre.phase = "Playing"
    /\ phase = "Playing"
    /\ serve_direction = "Right"
    /\ \E b \in balls : b.vx = direction_x("Right") /\ b.vy = -1 /\ b.at = "Away"

====
